---------------------------- MODULE Spec2Model ----------------------------
(***************************************************************************)
(* A model of sockguard: the rulesDirector (src/director.go) that          *)
(* classifies and rewrites Docker API requests, and the hijacking socket   *)
(* proxy (src/socketproxy/proxy.go) that relays them to the upstream       *)
(* socket.                                                                 *)
(*                                                                         *)
(* Representation.                                                         *)
(*  - A bind-mount string is a sequence of one-character strings.          *)
(*  - A URL path is a sequence of path segments ("/a/b" is <<"a","b">>).   *)
(*  - A decoded JSON value (Go's interface{}) is a tagged record: see      *)
(*    JNull, JBool, JStr, JNum, JArr, JObj. A JSON object is a function    *)
(*    from its member names; a member that is absent is not in its DOMAIN. *)
(***************************************************************************)
EXTENDS Naturals, Sequences, FiniteSets, TLC

VARIABLES
    cfg,        \* the rulesDirector's fields (read-only after startup)
    upstream,   \* the engine's resources: <<kind, id>> -> label state
    req,        \* the request being handled
    pc,         \* where the handling of the request stands
    out,        \* what the handling produced: response, upstream calls
    bindIn,     \* isBindAllowed: the arguments of the call under test
    bindOut,    \* isBindAllowed: its result
    px          \* SocketProxy.ServeHTTP: one proxied connection

vars == <<cfg, upstream, req, pc, out, bindIn, bindOut, px>>

directorVars == <<cfg, upstream, req, pc, out>>
bindVars     == <<bindIn, bindOut>>

-----------------------------------------------------------------------------
(* Bounds *)

\* Longest bind string drawn for isBindAllowed.
MaxBindLen == 5

-----------------------------------------------------------------------------
(* Strings as sequences of characters *)

\* The characters bind strings are drawn from: two letters, and every
\* character isBindAllowed and path.Clean treat specially.
Chars == {"a", "b", ".", "/", ":", "\\"}

RECURSIVE StringsUpTo(_)
StringsUpTo(n) ==
    IF n = 0 THEN {<<>>}
    ELSE LET shorter == StringsUpTo(n - 1)
         IN  shorter \cup {Append(s, c) : s \in {t \in shorter : Len(t) = n - 1}, c \in Chars}

\* strings.HasPrefix
HasPrefix(s, prefix) ==
    /\ Len(prefix) <= Len(s)
    /\ SubSeq(s, 1, Len(prefix)) = prefix

\* strings.ContainsAny
ContainsAny(s, chars) == \E i \in 1..Len(s) : s[i] \in chars

\* strings.Split(s, sep)[0]: the text before the first sep (all of s when
\* sep does not occur).
RECURSIVE FirstChunk(_, _)
FirstChunk(s, sep) ==
    IF s = <<>> \/ Head(s) = sep THEN <<>>
    ELSE <<Head(s)>> \o FirstChunk(Tail(s), sep)

\* lazybuf's backtracking on "..", for a rooted path (dotdot = 1):
\*   out.w--; for out.w > dotdot && out.index(out.w) != '/' { out.w-- }
\* buf is the output buffer, w the value of out.w (index(w) is buf[w + 1]).
RECURSIVE BackUp(_, _)
BackUp(buf, w) ==
    IF w > 1 /\ buf[w + 1] # "/" THEN BackUp(buf, w - 1) ELSE SubSeq(buf, 1, w)

\* Go's path.Clean on a rooted path, as its byte loop runs: r is the read
\* index (0-based, as in Go), buf the output written so far.
RECURSIVE CleanLoop(_, _, _)
CleanLoop(path, r, buf) ==
    LET n == Len(path)
        at(i) == path[i + 1]
    IN  IF r >= n THEN buf
        ELSE IF at(r) = "/" THEN CleanLoop(path, r + 1, buf)
        ELSE IF at(r) = "." /\ (r + 1 = n \/ at(r + 1) = "/")
             THEN CleanLoop(path, r + 1, buf)
        ELSE IF at(r) = "." /\ at(r + 1) = "." /\ (r + 2 = n \/ at(r + 2) = "/")
             THEN CleanLoop(path, r + 2,
                            IF Len(buf) > 1 THEN BackUp(buf, Len(buf) - 1) ELSE buf)
        ELSE LET sep  == IF Len(buf) # 1 THEN <<"/">> ELSE <<>>
                 stop == IF \E j \in r..(n - 1) : at(j) = "/"
                         THEN CHOOSE j \in r..(n - 1) :
                                  /\ at(j) = "/"
                                  /\ \A k \in r..(j - 1) : at(k) # "/"
                         ELSE n
             IN  CleanLoop(path, stop, buf \o sep \o SubSeq(path, r + 1, stop))

\* path.Clean(p) for a p that starts with "/" (r, dotdot = 1, 1 and the
\* output starts as "/").
Clean(p) == CleanLoop(p, 1, <<"/">>)

-----------------------------------------------------------------------------
(* isBindAllowed *)

\* The characters that make the source of a bind a host path rather than a
\* volume name: strings.ContainsAny(chunks[0], ".\\/").
HostPathChars == {".", "\\", "/"}

\* A mutation of isBindAllowed that compares the source as written, without
\* path.Clean.
isBindAllowedUncleaned(bind, allowed) ==
    LET chunk0 == FirstChunk(bind, ":")
    IN  IF ContainsAny(chunk0, HostPathChars)
        THEN \E i \in 1..Len(allowed) : HasPrefix(<<"/">> \o chunk0, allowed[i])
        ELSE TRUE

\* func isBindAllowed(bind string, allowed []string) bool
\* filepath.FromSlash is the identity where the separator is '/', which is
\* the case on every platform with unix sockets that sockguard runs on.
isBindAllowed(bind, allowed) ==
    LET chunk0 == FirstChunk(bind, ":")
    IN  IF ContainsAny(chunk0, HostPathChars)
        THEN LET hostSrc == Clean(<<"/">> \o chunk0)
             IN  \E i \in 1..Len(allowed) : HasPrefix(hostSrc, allowed[i])
        ELSE TRUE

\* The allow-bind lists isBindAllowed is exercised with.
AllowBindLists ==
    { <<>>,
      << <<"/", "a">> >>,
      << <<"/", "a", "/", "b">> >>,
      << <<"/", "b">>, <<"/", "a", "/", "b">> >> }

InitBind ==
    /\ bindIn \in [bind : StringsUpTo(MaxBindLen), allowed : AllowBindLists]
    /\ bindOut = "none"
    /\ cfg = <<>> /\ upstream = <<>> /\ req = <<>>
    /\ pc = "bind" /\ out = <<>> /\ px = <<>>

\* One call of isBindAllowed.
CallIsBindAllowed ==
    /\ bindOut = "none"
    /\ bindOut' = IF isBindAllowed(bindIn.bind, bindIn.allowed)
                  THEN "allowed" ELSE "denied"
    /\ UNCHANGED <<directorVars, bindIn, px>>

NextBind == CallIsBindAllowed

SpecBind == InitBind /\ [][NextBind]_vars

-----------------------------------------------------------------------------
(* JSON values, as encoding/json decodes them into interface{} *)

JNull    == [t |-> "null"]
JNum     == [t |-> "num"]
JBool(b) == [t |-> "bool", v |-> b]
JStr(str) == [t |-> "str", v |-> str]
JArr(elems) == [t |-> "arr", v |-> elems]
JObj(members) == [t |-> "obj", v |-> members]

\* The object with no members, and the map with no entries.
NoMembers == <<>>

IsObj(j) == j.t = "obj"
Has(j, name) == IsObj(j) /\ name \in DOMAIN j.v

\* m[name], which is nil (JNull) for a nil map and for an absent member.
Member(j, name) == IF Has(j, name) THEN j.v[name] ELSE JNull

\* m[name] = value on a map.
WithMember(j, name, value) ==
    JObj([k \in (DOMAIN j.v) \cup {name} |-> IF k = name THEN value ELSE j.v[k]])

\* A request body: JSON text (held as the value it decodes to), text that is
\* not JSON, no body at all, or a body whose reader has been read to its end.
Json(j)       == [t |-> "json", v |-> j]
MalformedBody == [t |-> "malformed"]
EmptyBody     == [t |-> "empty"]
DrainedBody   == [t |-> "drained"]

\* A query parameter that is not in the query string.
NoParam == [t |-> "absent"]

\* json.NewDecoder(body).Decode(&decoded) with decoded a map[string]interface{}:
\* an error for anything but an object or null; null leaves the map nil.
DecodesToMap(body) == body.t = "json" /\ body.v.t \in {"obj", "null"}

-----------------------------------------------------------------------------
(* Constants of the program *)

apiVersion == "v1.32"
ownerKey   == "com.buildkite.sockguard.owner"

StatusOK                  == 200
StatusBadRequest          == 400
StatusUnauthorized        == 401
StatusNotFound            == 404
StatusInternalServerError == 500
StatusNotImplemented      == 501

-----------------------------------------------------------------------------
(* The configuration: the fields of rulesDirector *)

\* The bind strings and allow-bind paths that occur in requests and in the
\* configuration, with the characters each stands for.
CharsOf ==
    ("a:b"   :> <<"a", ":", "b">>) @@                \* the volume a
    ("/a:b"  :> <<"/", "a", ":", "b">>) @@           \* the host path /a
    ("/ab:b" :> <<"/", "a", "b", ":", "b">>) @@      \* the host path /ab
    ("/a/b"  :> <<"/", "a", "/", "b">>) @@           \* the host path /a/b
    ("/a/.." :> <<"/", "a", "/", ".", ".">>) @@      \* the host path /a/.. (/)
    ("/b:b"  :> <<"/", "b", ":", "b">>) @@           \* the host path /b
    ("/a"    :> <<"/", "a">>)

\* strings.Split(link, ":") of the docker links that occur.
LinkParts == ("sib:als" :> <<"sib", "als">>) @@ ("sib" :> <<"sib">>)

Owners == {"me"}

\* -docker-link, -container-join-network and -container-join-network-alias:
\* main refuses -docker-link together with -container-join-network, and an
\* alias without -container-join-network.
LinkOptions ==
    { [link |-> "",        join |-> "",   alias |-> ""],
      [link |-> "sib:als", join |-> "",   alias |-> ""],
      [link |-> "",        join |-> "sib", alias |-> ""],
      [link |-> "",        join |-> "sib", alias |-> "als"] }

Config(owner, binds, hostNet, cgroup, lnk, user) ==
    [ Owner                     |-> owner,
      AllowBinds                |-> binds,
      AllowHostModeNetworking   |-> hostNet,
      ContainerCgroupParent     |-> cgroup,
      ContainerDockerLink       |-> lnk.link,
      ContainerJoinNetwork      |-> lnk.join,
      ContainerJoinNetworkAlias |-> lnk.alias,
      User                      |-> user ]

-----------------------------------------------------------------------------
(* The upstream engine *)

Kinds == {"containers", "images", "networks", "volumes"}

\* The resources that may exist upstream, <<kind, id>>, the id a path.
Resources ==
    { <<"containers", <<"c1">> >>, <<"images", <<"i1">> >>,
      <<"networks", <<"n1">> >>,   <<"volumes", <<"v1">> >> }

\* What an inspect of a resource answers: its status and, with 200, the
\* resource's labels (a map from label names).
NotFound   == [status |-> StatusNotFound, labels |-> NoMembers]
Failing    == [status |-> StatusInternalServerError, labels |-> NoMembers]
Found(labels) == [status |-> StatusOK, labels |-> labels]

ResourceStates ==
    { NotFound, Failing, Found(NoMembers),
      Found(ownerKey :> "me"), Found(ownerKey :> "other") }

\* The upstream states: at most one resource exists.
UpstreamStates ==
    { u \in [Resources -> ResourceStates] :
        Cardinality({r \in Resources : u[r] # NotFound}) <= 1 }

\* GET /v1.32/<kind>/<id>[/json] as the engine answers it.
InspectAnswer(u, kind, id) ==
    IF <<kind, id>> \in Resources THEN u[<<kind, id>>] ELSE NotFound

-----------------------------------------------------------------------------
(* Requests and paths *)

\* The path segments requests are made of. A segment of WordSegments holds
\* only \w characters; "my-c" starts with \w characters and holds a '-';
\* ".h" starts with a character that is not \w. No segment is empty.
WordSegments ==
    { "_ping", "version", "info", "events", "containers", "exec", "build",
      "images", "networks", "volumes", "commit", "create", "prune", "json",
      "search", "get", "load", "tag", "push", "history", "connect",
      "disconnect", "attach", "ws", "start", "resize", "logs",
      "c1", "e1", "i1", "n1", "v1" }

IsWord(seg) == seg \in WordSegments

\* The segment starts with a \w character: \w+\b matches at its start.
StartsWithWord(seg) == seg \in WordSegments \cup {"my-c"}

\* versionRegex `^/v\d\.\d+\b` on a path: its first segment is a version.
VersionSegments == {"v1.32", "v1.37"}
HasVersion(path) == path # <<>> /\ path[1] \in VersionSegments

\* versionRegex.ReplaceAllString(path, "") when the regex matches.
StripVersion(path) == IF HasVersion(path) THEN Tail(path) ELSE path

Last(path) == path[Len(path)]
ButLast(path) == SubSeq(path, 1, Len(path) - 1)

NoQuery == [filters |-> NoParam, labels |-> NoParam, cgroupparent |-> NoParam]

Request(method, path, query, body) ==
    [method |-> method, path |-> path, query |-> query, body |-> body]

\* The place of the request variable while no request is being handled.
NoRequest == Request("", <<>>, NoQuery, EmptyBody)

-----------------------------------------------------------------------------
(* rulesDirector.Direct: the route table *)

\* The patterns of Direct's switch, each as the set of version-stripped
\* paths its regular expression matches.
MatchesPattern(pattern, p) ==
    CASE pattern = "^/(_ping|version|info)$" ->
            Len(p) = 1 /\ p[1] \in {"_ping", "version", "info"}
      [] pattern = "^/events$"            -> p = <<"events">>
      [] pattern = "^/containers/create$" -> p = <<"containers", "create">>
      [] pattern = "^/containers/prune$"  -> p = <<"containers", "prune">>
      [] pattern = "^/containers/json$"   -> p = <<"containers", "json">>
      [] pattern = "^/(containers|exec)/(\\w+)\\b" ->
            Len(p) >= 2 /\ p[1] \in {"containers", "exec"} /\ StartsWithWord(p[2])
      [] pattern = "^/build$"             -> p = <<"build">>
      [] pattern = "^/images/json$"       -> p = <<"images", "json">>
      [] pattern = "^/images/create$"     -> p = <<"images", "create">>
      [] pattern = "^/images/(create|search|get|load)$" ->
            Len(p) = 2 /\ p[1] = "images" /\ p[2] \in {"create", "search", "get", "load"}
      [] pattern = "^/images/prune$"      -> p = <<"images", "prune">>
      [] pattern = "^/images/(\\w+)\\b"   ->
            Len(p) >= 2 /\ p[1] = "images" /\ StartsWithWord(p[2])
      [] pattern = "^/networks$"          -> p = <<"networks">>
      [] pattern = "^/networks/create$"   -> p = <<"networks", "create">>
      [] pattern = "^/networks/prune$"    -> p = <<"networks", "prune">>
      [] pattern = "^/networks/(.+)$"     -> Len(p) >= 2 /\ p[1] = "networks"
      [] pattern = "^/networks/(.+)/(connect|disconnect)$" ->
            Len(p) >= 3 /\ p[1] = "networks" /\ Last(p) \in {"connect", "disconnect"}
      [] pattern = "^/volumes$"           -> p = <<"volumes">>
      [] pattern = "^/volumes/create$"    -> p = <<"volumes", "create">>
      [] pattern = "^/volumes/prune$"     -> p = <<"volumes", "prune">>
      [] pattern = "^/volumes/(\\w+)$"    ->
            Len(p) = 2 /\ p[1] = "volumes" /\ IsWord(p[2])

\* var match = func(method string, pattern string) bool
match(r, method, pattern) ==
    /\ method = "*" \/ method = r.method
    /\ MatchesPattern(pattern, StripVersion(r.path))

\* The case of Direct's switch that the request takes: the first that
\* matches. Each is named by the handler it leads to. The case for
\* POST ^/images/(create|search|get|load)$ breaks out of the switch, to the
\* "not implemented yet" answer at the end of Direct.
Route(r) ==
    IF      match(r, "GET", "^/(_ping|version|info)$")
        THEN "upstream"
    ELSE IF match(r, "GET", "^/events$")
        THEN "filters"
    ELSE IF match(r, "POST", "^/containers/create$")
        THEN "containerCreate"
    ELSE IF match(r, "POST", "^/containers/prune$")
        THEN "filters"
    ELSE IF match(r, "GET", "^/containers/json$")
        THEN "filters"
    ELSE IF match(r, "*", "^/(containers|exec)/(\\w+)\\b")
        THEN "checkOwner:containers"
    ELSE IF match(r, "POST", "^/build$")
        THEN "build"
    ELSE IF match(r, "GET", "^/images/json$")
        THEN "filters"
    ELSE IF match(r, "POST", "^/images/create$")
        THEN "upstream"
    ELSE IF match(r, "POST", "^/images/(create|search|get|load)$")
        THEN "notImplemented"
    ELSE IF match(r, "POST", "^/images/prune$")
        THEN "filters"
    ELSE IF match(r, "*", "^/images/(\\w+)\\b")
        THEN "checkOwner:images"
    ELSE IF match(r, "GET", "^/networks$")
        THEN "filters"
    ELSE IF match(r, "POST", "^/networks/create$")
        THEN "networkCreate"
    ELSE IF match(r, "POST", "^/networks/prune$")
        THEN "filters"
    ELSE IF match(r, "DELETE", "^/networks/(.+)$")
        THEN "networkDelete"
    ELSE IF \/ match(r, "GET", "^/networks/(.+)$")
            \/ match(r, "POST", "^/networks/(.+)/(connect|disconnect)$")
        THEN "networkPassThrough"
    ELSE IF match(r, "GET", "^/volumes$")
        THEN "filters"
    ELSE IF match(r, "POST", "^/volumes/create$")
        THEN "addLabelsToBody"
    ELSE IF match(r, "POST", "^/volumes/prune$")
        THEN "filters"
    ELSE IF \/ match(r, "GET", "^/volumes/(\\w+)$")
            \/ match(r, "DELETE", "^/volumes/(\\w+)$")
        THEN "checkOwner:volumes"
    ELSE "notImplemented"

-----------------------------------------------------------------------------
(* What the handling of a request produces *)

\* A request sent upstream: an inspect or a synthetic call made with
\* r.Client, or the client's request as upstream.ServeHTTP forwards it.
Call(type, r) == [type |-> type, req |-> r]

\* A synthetic connect or disconnect made with r.Client.Do, with the status
\* the engine answered it with (0: Do returned an error).
SyntheticCall(type, r, status) == [type |-> type, req |-> r, status |-> status]

\* The message of the "not implemented yet" answer, as the parts it is
\* concatenated from; NoMessage stands for every other outcome, whose text is
\* not modelled.
Message(method, path, text) == [method |-> method, path |-> path, text |-> text]
NoMessage == Message("", <<>>, "")

\* resp: the status of the answer the proxy wrote itself (0: none);
\* msg: its message; panic: the handler panicked (net/http then drops the
\* connection); calls: the requests sent upstream, in order.
\* ctype, doc: the Content-Type and the body of that answer (NoFormat when
\* the proxy wrote none).
\* func writeError(w, msg, code): application/json, {"message": msg}.
JsonFormat == [ctype |-> "application/json", doc |-> "{\"message\": msg}"]
\* http.Error(w, msg, code): text/plain; charset=utf-8, the message as text.
TextFormat == [ctype |-> "text/plain; charset=utf-8", doc |-> "msg"]
NoFormat   == [ctype |-> "", doc |-> ""]

Answer(code, calls) ==
    [resp |-> code, msg |-> NoMessage, panic |-> FALSE, calls |-> calls,
     format |-> IF code = 0 THEN NoFormat ELSE JsonFormat]
HttpError(code, calls) ==
    [Answer(code, calls) EXCEPT !.format = IF code = 0 THEN NoFormat ELSE TextFormat]
Panicked(calls) ==
    [resp |-> 0, msg |-> NoMessage, panic |-> TRUE, calls |-> calls, format |-> NoFormat]
Forward(r, calls)   == Answer(0, Append(calls, Call("forward", r)))
NoOutcome           == Answer(0, <<>>)

IsForwarded(o) == \E i \in 1..Len(o.calls) : o.calls[i].type = "forward"
ForwardedRequest(o) ==
    o.calls[CHOOSE i \in 1..Len(o.calls) : o.calls[i].type = "forward"].req

-----------------------------------------------------------------------------
(* checkOwner *)

\* identifierPatterns, each as the text its first group captures from a
\* version-stripped path (<<>> when the pattern does not match). A lazy
\* (.+?) before an optional (?:/\w+)?$ takes everything up to a last segment
\* of \w characters when there is one to leave out, and everything otherwise.
CapturedBy(i, p) ==
    CASE i = 1 ->   \* ^/containers/(.+?)(?:/\w+)?$
            IF Len(p) >= 2 /\ p[1] = "containers"
            THEN (IF Len(p) >= 3 /\ IsWord(Last(p)) THEN SubSeq(p, 2, Len(p) - 1)
                  ELSE Tail(p))
            ELSE <<>>
      [] i = 2 ->   \* ^/networks/(.+?)(?:/\w+)?$
            IF Len(p) >= 2 /\ p[1] = "networks"
            THEN (IF Len(p) >= 3 /\ IsWord(Last(p)) THEN SubSeq(p, 2, Len(p) - 1)
                  ELSE Tail(p))
            ELSE <<>>
      [] i = 3 ->   \* ^/volumes/(\w+?)(?:/\w+)?$
            IF /\ Len(p) \in {2, 3} /\ p[1] = "volumes"
               /\ \A k \in 2..Len(p) : IsWord(p[k])
            THEN <<p[2]>>
            ELSE <<>>
      [] i = 4 ->   \* ^/images/(.+?)/(?:json|history|push|tag)$
            IF /\ Len(p) >= 3 /\ p[1] = "images"
               /\ Last(p) \in {"json", "history", "push", "tag"}
            THEN SubSeq(p, 2, Len(p) - 1)
            ELSE <<>>
      [] i = 5 ->   \* ^/images/([^/]+)$
            IF Len(p) = 2 /\ p[1] = "images" THEN <<p[2]>> ELSE <<>>
      [] i = 6 ->   \* ^/images/(\w+/[^/]+)$
            IF Len(p) = 3 /\ p[1] = "images" /\ IsWord(p[2]) THEN Tail(p) ELSE <<>>

NumIdentifierPatterns == 6

\* The loop of checkOwner over identifierPatterns: the capture of the first
\* pattern that matches, <<>> (the empty identifier) when none does.
Identifier(p) ==
    IF \E i \in 1..NumIdentifierPatterns : CapturedBy(i, p) # <<>>
    THEN CapturedBy(CHOOSE i \in 1..NumIdentifierPatterns :
                        /\ CapturedBy(i, p) # <<>>
                        /\ \A j \in 1..(i - 1) : CapturedBy(j, p) = <<>>, p)
    ELSE <<>>

\* The request of inspectLabels / getInto: GET /v1.32/<kind>/<id>/json for
\* containers and images, GET /v1.32/<kind>/<id> for networks and volumes.
InspectRequest(kind, id) ==
    Request("GET",
            <<apiVersion, kind>> \o id
                \o (IF kind \in {"containers", "images"} THEN <<"json">> ELSE <<>>),
            NoQuery, EmptyBody)

\* A mutation of the label test of checkOwner: a resource with another
\* owner's label is let through as if it had no owner label.
OwnerDecisionIgnoringValue(labels, owner, allowEmpty) ==
    \/ ownerKey \in DOMAIN labels /\ labels[ownerKey] = owner
    \/ allowEmpty

\* if val, exists := labels[ownerKey]; exists && val == r.Owner { true }
\* else if !exists && allowEmpty { true } else { false }
OwnerDecision(labels, owner, allowEmpty) ==
    \/ ownerKey \in DOMAIN labels /\ labels[ownerKey] = owner
    \/ ownerKey \notin DOMAIN labels /\ allowEmpty

\* func (r *rulesDirector) checkOwner(l, kind, allowEmpty, req) (bool, error)
\* err is "" for nil, "notfound" for errInspectNotFound.
checkOwner(c, u, kind, allowEmpty, r) ==
    LET identifier == Identifier(StripVersion(r.path))
        inspect    == <<Call("inspect", InspectRequest(kind, identifier))>>
        answer     == InspectAnswer(u, kind, identifier)
    IN  IF identifier = <<>>
        THEN [ok |-> FALSE, err |-> "noidentifier", calls |-> <<>>]
        ELSE IF answer.status = StatusNotFound
        THEN [ok |-> FALSE, err |-> "notfound", calls |-> inspect]
        ELSE IF answer.status # StatusOK
        THEN [ok |-> FALSE, err |-> "failed", calls |-> inspect]
        ELSE [ok |-> OwnerDecision(answer.labels, c.Owner, allowEmpty),
              err |-> "", calls |-> inspect]

\* The three owner-check cases of Direct (containers, images, volumes):
\*   if ok { upstream } else if err == errInspectNotFound { upstream }
\*   else if err != nil { 500 } else { 401 }
DirectCheckOwner(c, u, kind, allowEmpty, r) ==
    LET chk == checkOwner(c, u, kind, allowEmpty, r)
    IN  IF chk.ok THEN Forward(r, chk.calls)
        ELSE IF chk.err = "notfound" THEN Forward(r, chk.calls)
        ELSE IF chk.err # "" THEN Answer(StatusInternalServerError, chk.calls)
        ELSE Answer(StatusUnauthorized, chk.calls)

\* The name Route gives the owner-check case of each kind.
CheckOwnerRoute ==
    ("containers" :> "checkOwner:containers") @@ ("images" :> "checkOwner:images") @@
    ("volumes" :> "checkOwner:volumes")

\* allowEmpty as Direct passes it for each kind.
AllowEmptyOf(kind) == kind # "containers"

\* The case GET ^/networks/(.+)$, POST ^/networks/(.+)/(connect|disconnect)$:
\* the body is read to its end and upstream is returned; the owner check that
\* follows the return statement is never run.
DirectNetworkPassThrough(r) ==
    Forward([r EXCEPT !.body = DrainedBody], <<>>)

\* errorHandler(req.Method+" "+req.URL.Path+" not implemented yet", 501)
DirectNotImplementedForwards(r) == Forward(r, <<>>)
DirectNotImplemented(r) ==
    [Answer(StatusNotImplemented, <<>>) EXCEPT
        !.msg = Message(r.method, r.path, " not implemented yet")]

-----------------------------------------------------------------------------
(* Rewriting handlers *)

\* func addLabel(label, value string, into interface{}), seen from the map
\* that holds `into` as its member Labels: a Labels that is a JSON object
\* gets the label; anything else (absent, null, another type) is logged and
\* left as it is.
addLabel(label, value, decoded) ==
    IF IsObj(Member(decoded, "Labels"))
    THEN WithMember(decoded, "Labels", WithMember(decoded.v["Labels"], label, value))
    ELSE decoded

\* The loop over HostConfig.Binds: the first element, in order, that stops
\* it. bind.(string) panics on an element that is not a string; a string
\* that isBindAllowed refuses is answered 401.
RECURSIVE BindsVerdict(_, _)
BindsVerdict(binds, allowed) ==
    IF binds = <<>> THEN "pass"
    ELSE IF Head(binds).t # "str" THEN "panic"
    ELSE IF ~isBindAllowed(CharsOf[Head(binds).v],
                           [i \in 1..Len(allowed) |-> CharsOf[allowed[i]]])
    THEN "denied"
    ELSE BindsVerdict(Tail(binds), allowed)

\* fmt.Sprint(v) of a decoded JSON value: a string prints as itself.
Sprint(j) == IF j.t = "str" THEN j.v ELSE "%v"

\* privileged, ok := HostConfig["Privileged"].(bool); if ok && privileged
PrivilegedRefused(hostConfig) ==
    LET privileged == Member(hostConfig, "Privileged")
    IN  privileged.t = "bool" /\ privileged.v

\* force user: if r.User != "" { decoded["User"] = r.User }
ForceUserIfUnset(c, decoded) ==
    IF c.User # "" /\ ~Has(decoded, "User")
    THEN WithMember(decoded, "User", JStr(c.User)) ELSE decoded
ForceUser(c, decoded) ==
    IF c.User # "" THEN WithMember(decoded, "User", JStr(c.User)) ELSE decoded

\* func (r *rulesDirector) handleContainerCreate(l, req, upstream)
handleContainerCreate(c, r) ==
    IF ~DecodesToMap(r.body) THEN Answer(StatusBadRequest, <<>>)
    ELSE
    LET decoded    == addLabel(ownerKey, JStr(c.Owner), r.body.v)
        hostConfig == Member(decoded, "HostConfig")
        binds      == Member(hostConfig, "Binds")
        bindsVerdict == IF binds.t = "arr" THEN BindsVerdict(binds.v, c.AllowBinds)
                        ELSE "pass"
        networkMode  == Member(hostConfig, "NetworkMode")
        cgroupParent == Member(hostConfig, "CgroupParent")
        links        == Member(hostConfig, "Links")
        \* Apply the specified CgroupParent, if flag enabled
        hc1 == IF c.ContainerCgroupParent # ""
               THEN WithMember(hostConfig, "CgroupParent", JStr(c.ContainerCgroupParent))
               ELSE hostConfig
        \* apply ContainerDockerLink if enabled
        newLinks == (IF links.t = "arr"
                     THEN [i \in 1..Len(links.v) |-> JStr(Sprint(links.v[i]))]
                     ELSE <<>>) \o <<JStr(c.ContainerDockerLink)>>
        hc2 == IF c.ContainerDockerLink # ""
               THEN WithMember(hc1, "Links", JArr(newLinks))
               ELSE hc1
        d1  == WithMember(decoded, "HostConfig", hc2)
        \* force user
        d2  == ForceUser(c, d1)
    IN  \* decoded["HostConfig"].(map[string]interface{}) panics unless
        \* HostConfig is an object
        IF ~IsObj(hostConfig) THEN Panicked(<<>>)
        ELSE IF PrivilegedRefused(hostConfig) THEN Answer(StatusUnauthorized, <<>>)
        ELSE IF bindsVerdict = "panic" THEN Panicked(<<>>)
        ELSE IF bindsVerdict = "denied" THEN Answer(StatusUnauthorized, <<>>)
        ELSE IF networkMode.t = "str" /\ networkMode.v = "host" /\ ~c.AllowHostModeNetworking
             THEN Answer(StatusUnauthorized, <<>>)
        ELSE IF cgroupParent.t # "str" THEN Answer(StatusBadRequest, <<>>)
        ELSE IF cgroupParent.v # "" THEN Answer(StatusUnauthorized, <<>>)
        ELSE IF c.ContainerDockerLink # "" /\ ~Has(hostConfig, "Links")
             THEN Answer(StatusBadRequest, <<>>)
        \* links.([]interface{}) panics on a Links that is neither null nor an array
        ELSE IF c.ContainerDockerLink # "" /\ links.t \notin {"null", "arr"}
             THEN Panicked(<<>>)
        ELSE Forward([r EXCEPT !.body = Json(d2)], <<>>)

\* func modifyRequestBody + addLabelsToBody: decode, addLabel, re-encode,
\* forward. json.Marshal of a nil map is null.
addLabelsToBody(c, r) ==
    IF ~DecodesToMap(r.body) THEN HttpError(StatusBadRequest, <<>>)
    ELSE Forward([r EXCEPT !.body = Json(addLabel(ownerKey, JStr(c.Owner), r.body.v))], <<>>)

\* Decode of the labels parameter into a map[string]string: an object whose
\* members are all strings, or null (which leaves the map empty).
DecodesToStringMap(param) ==
    /\ param.t = "json"
    /\ \/ param.v.t = "null"
       \/ IsObj(param.v) /\ \A k \in DOMAIN param.v.v : param.v.v[k].t \in {"str", "null"}

\* q.Get(name) != "": the parameter is there and is not empty.
IsSet(param) == param.t # "absent" /\ ~(param.t = "str" /\ param.v = "")

\* cgroupParent := q.Get("cgroupparent"); if cgroupParent != "" { 401 }
BuildCgroupRefused(c, param) == IsSet(param)

\* func (r *rulesDirector) handleBuild(l, req, upstream)
handleBuild(c, r) ==
    LET given  == r.query.labels
        \* a null member decodes to the empty string
        labels == IF IsSet(given) /\ IsObj(given.v)
                  THEN JObj([k \in DOMAIN given.v.v |->
                                IF given.v.v[k].t = "null" THEN JStr("") ELSE given.v.v[k]])
                  ELSE JObj(NoMembers)
        q1 == [r.query EXCEPT !.labels = Json(WithMember(labels, ownerKey, JStr(c.Owner)))]
        q2 == IF c.ContainerCgroupParent # ""
              THEN [q1 EXCEPT !.cgroupparent = JStr(c.ContainerCgroupParent)]
              ELSE q1
    IN  IF IsSet(given) /\ ~DecodesToStringMap(given) THEN HttpError(StatusBadRequest, <<>>)
        ELSE IF BuildCgroupRefused(c, r.query.cgroupparent)
             THEN Answer(StatusUnauthorized, <<>>)
        ELSE Forward([r EXCEPT !.query = q2], <<>>)

\* The sibling container of the synthetic connect and disconnect:
\* cdl.Container of splitContainerDockerLink when a docker link is set,
\* ContainerJoinNetwork otherwise.
Sibling(c) ==
    IF c.ContainerDockerLink # "" THEN LinkParts[c.ContainerDockerLink][1]
    ELSE c.ContainerJoinNetwork

HasSibling(c) == c.ContainerDockerLink # "" \/ c.ContainerJoinNetwork # ""

\* What the engine may answer to a synthetic connect or disconnect: a
\* status, or 0 for r.Client.Do returning an error.
SyntheticAnswers == {StatusOK, StatusNotFound, 0}

\* attachJson of handleNetworkCreate.
ConnectBody(c) ==
    LET container == "Container" :> JStr(Sibling(c))
    IN  IF c.ContainerDockerLink = "" /\ c.ContainerJoinNetworkAlias # ""
        THEN JObj(container @@
                  ("EndpointConfig" :>
                      JObj("Aliases" :> JArr(<<JStr(c.ContainerJoinNetworkAlias)>>))))
        ELSE JObj(container)

\* url.Parse of "http://unix/v1.32/networks/<name>/connect", for the names
\* that occur: "%zz" is an invalid URL escape.
ParsesInURL(name) == name # "%zz"

\* func (r *rulesDirector) handleNetworkCreate(l, req, upstream); syn is the
\* engine's answer to the connect. When http.NewRequest fails it returns a
\* nil request, and attachReq.Header.Set, which comes before the test of
\* err, panics on it.
handleNetworkCreate(c, r, syn) ==
    IF ~DecodesToMap(r.body) THEN HttpError(StatusBadRequest, <<>>)
    ELSE IF Member(r.body.v, "Name").t # "str" THEN HttpError(StatusBadRequest, <<>>)
    ELSE
    LET networkIdOrName == r.body.v.v["Name"].v
        forwarded == Forward([r EXCEPT !.body =
                         Json(addLabel(ownerKey, JStr(c.Owner), r.body.v))], <<>>)
        connect == SyntheticCall("connect",
                        Request("POST", <<apiVersion, "networks", networkIdOrName, "connect">>,
                                NoQuery, Json(ConnectBody(c))), syn)
    IN  IF ~HasSibling(c) THEN forwarded
        ELSE IF ~ParsesInURL(networkIdOrName) THEN Panicked(forwarded.calls)
        ELSE HttpError(IF syn = StatusOK THEN 0 ELSE StatusBadRequest,
                    Append(forwarded.calls, connect))

\* A mutation of the test of the disconnect's answer: any answer passes.
DetachSucceededAlways(syn) == TRUE

\* r.Client.Do(detachReq) returned no error and detachResp.StatusCode is 200.
DetachSucceeded(syn) == syn = StatusOK

\* func (r *rulesDirector) handleNetworkDelete(l, req, upstream); syn is the
\* engine's answer to the disconnect. strings.Split(req.URL.String(), "/")
\* has one element more than the path has segments (the requests of this
\* model that reach here carry no query string).
handleNetworkDelete(c, u, r, syn) ==
    LET chk == checkOwner(c, u, "networks", TRUE, r)
        disconnect ==
            SyntheticCall("disconnect",
                 Request("POST", <<apiVersion, "networks", r.path[3], "disconnect">>,
                         NoQuery,
                         Json(JObj(("Container" :> JStr(Sibling(c))) @@
                                   ("Force" :> JBool(TRUE))))), syn)
    IN  IF ~chk.ok THEN HttpError(StatusUnauthorized, chk.calls)
        ELSE IF ~HasSibling(c) THEN Forward(r, chk.calls)
        ELSE IF Len(r.path) + 1 # 4 THEN HttpError(StatusBadRequest, chk.calls)
        ELSE IF ~DetachSucceeded(syn)
             THEN HttpError(StatusBadRequest, Append(chk.calls, disconnect))
        ELSE Forward(r, Append(chk.calls, disconnect))

\* ownerKey + "=" + owner, for the owners that occur.
OwnerLabelFilter ==
    ("me" :> "com.buildkite.sockguard.owner=me") @@
    ("other" :> "com.buildkite.sockguard.owner=other")

\* The sequences that list the elements of a set once each, in any order:
\* the orders in which a Go map may be iterated.
RECURSIVE Orders(_)
Orders(set) ==
    IF set = {} THEN {<<>>}
    ELSE UNION { {<<x>> \o rest : rest \in Orders(set \ {x})} : x \in set }

\* The values one key of the decoded filters contributes to filters[k]:
\* the member names of an object (in any order) or the elements of an array.
FilterValues(value) ==
    IF value.t = "obj" THEN {[i \in 1..Len(o) |-> JStr(o[i])] : o \in Orders(DOMAIN value.v)}
    ELSE {value.v}

\* func (r *rulesDirector) addLabelsToQueryStringFilters(l, req, upstream):
\* the set of its possible outcomes. A key whose object has no members is
\* never appended to and is left out; a key whose array is empty is kept
\* with a nil slice, which json.Marshal writes as null.
addLabelsToQueryStringFilters(c, r) ==
    LET qf       == r.query.filters
        existing == IF IsSet(qf) /\ qf.t = "json" /\ IsObj(qf.v) THEN qf.v.v ELSE NoMembers
        kept     == {k \in DOMAIN existing :
                        ~(existing[k].t = "obj" /\ DOMAIN existing[k].v = {})}
        \* label := ownerKey + "=" + r.Owner
        label    == JStr(OwnerLabelFilter[c.Owner])
    IN  IF IsSet(qf) /\ ~DecodesToMap(qf) THEN {HttpError(StatusBadRequest, <<>>)}
        ELSE IF \E k \in DOMAIN existing : existing[k].t \notin {"obj", "arr"}
             THEN {HttpError(StatusBadRequest, <<>>)}
        ELSE { Forward([r EXCEPT !.query.filters =
                   Json(JObj([k \in kept \cup {"label"} |->
                       IF k = "label"
                       THEN JArr((IF "label" \in kept THEN pick["label"] ELSE <<>>)
                                 \o <<label>>)
                       ELSE IF pick[k] = <<>> THEN JNull ELSE JArr(pick[k])]))], <<>>)
               : pick \in {f \in [kept -> UNION {FilterValues(existing[k]) : k \in kept}] :
                              \A k \in kept : f[k] \in FilterValues(existing[k])} }

-----------------------------------------------------------------------------
(* The requests clients send *)

Absent == [t |-> "absent"]

\* The JSON object with the members of f that are not Absent.
MakeObj(f) == JObj([k \in {m \in DOMAIN f : f[m].t # "absent"} |-> f[k]])

Methods == {"GET", "POST", "DELETE"}

\* With and without the leading API version.
Prefixes == {<<>>, <<"v1.32">>}

\* Version-stripped paths: every row of the route table, resources that
\* exist upstream and that do not, and paths no row matches.
Paths ==
    { <<"_ping">>, <<"events">>, <<"commit">>,
      <<"containers", "create">>, <<"containers", "prune">>, <<"containers", "json">>,
      <<"containers", "c1">>, <<"containers", "c1", "json">>,
      <<"containers", "c1", "attach", "ws">>, <<"containers", "my-c">>,
      <<"containers", ".h">>, <<"exec", "e1", "start">>,
      <<"exec", "e1", "resize">>, <<"exec", "e1", "json">>,
      <<"build">>, <<"build", "prune">>,
      <<"images", "json">>, <<"images", "create">>, <<"images", "search">>,
      <<"images", "get">>, <<"images", "load">>,
      <<"images", "prune">>, <<"images", "i1">>, <<"images", "i1", "json">>,
      <<"images", "i1", "get">>, <<"images", "i1", "tag">>,
      <<"networks">>, <<"networks", "create">>, <<"networks", "prune">>,
      <<"networks", "n1">>, <<"networks", "n1", "connect">>,
      <<"networks", "n1", "disconnect">>,
      <<"volumes">>, <<"volumes", "create">>, <<"volumes", "prune">>,
      <<"volumes", "v1">> }

\* The Labels member of a create body: absent, null, not an object, an
\* object without the owner label, an object with another owner's label.
LabelsOptions ==
    { Absent, JNull, JStr("x"), JObj(NoMembers), JObj("k" :> JStr("v")),
      JObj(ownerKey :> JStr("other")) }

\* The members of HostConfig in a container create body.
PrivilegedOptions   == {Absent, JBool(TRUE), JBool(FALSE)}
BindsOptions ==
    { Absent, JArr(<<JStr("a:b")>>), JArr(<<JStr("/a:b")>>), JArr(<<JStr("/ab:b")>>),
      JArr(<<JStr("/b:b")>>), JArr(<<JNum>>), JArr(<<JStr("/a:b"), JStr("/b:b")>>) }
NetworkModeOptions  == {Absent, JStr("host"), JStr("bridge")}
CgroupParentOptions == {Absent, JStr(""), JStr("own")}
LinksOptions        == {Absent, JNull, JArr(<<>>), JArr(<<JStr("x:y")>>)}
UserOptions         == {Absent, JStr("root")}

HostConfigOptions ==
    {Absent} \cup
    { MakeObj(f) : f \in [ Privileged : PrivilegedOptions, Binds : BindsOptions,
                           NetworkMode : NetworkModeOptions,
                           CgroupParent : CgroupParentOptions, Links : LinksOptions ] }

\* The bodies of POST /containers/create: every combination of the members
\* above, and bodies that are not a JSON object.
ContainerCreateBodies ==
    { Json(MakeObj(f)) : f \in [ Labels : LabelsOptions, HostConfig : HostConfigOptions,
                                 User : UserOptions ] }
    \cup {MalformedBody, Json(JNull), Json(JArr(<<>>))}

\* A few of them, for the specification of the whole Director.
SomeContainerCreateBodies ==
    { Json(MakeObj([Labels |-> l, HostConfig |-> h])) :
        l \in {Absent, JObj(NoMembers), JObj(ownerKey :> JStr("other"))},
        h \in { Absent,
                JObj("CgroupParent" :> JStr("")),
                JObj("CgroupParent" :> JStr("own")),
                JObj(("CgroupParent" :> JStr("")) @@ ("Links" :> JNull)),
                JObj(("CgroupParent" :> JStr("")) @@ ("Privileged" :> JBool(TRUE))) } }
    \cup {MalformedBody}

\* The bodies of POST /networks/create and POST /volumes/create.
NamedCreateBodies ==
    { Json(MakeObj([Name |-> n, Labels |-> l])) :
        n \in {Absent, JStr("n1"), JStr("%zz")}, l \in LabelsOptions }
    \cup {MalformedBody, Json(JNull)}

\* The query strings of POST /build.
BuildQueries ==
    { [filters |-> Absent, labels |-> l, cgroupparent |-> g] :
        l \in { Absent, JStr(""), MalformedBody, Json(JNull), Json(JStr("x")),
                Json(JObj(NoMembers)), Json(JObj("k" :> JStr("v"))),
                Json(JObj("k" :> JNum)),
                Json(JObj(ownerKey :> JStr("other"))) },
        g \in {Absent, JStr(""), JStr("own")} }

\* The filters parameter of the list, prune and events endpoints.
FilterQueries ==
    { [filters |-> f, labels |-> Absent, cgroupparent |-> Absent] :
        f \in { Absent, MalformedBody, Json(JNull), Json(JArr(<<>>)),
                Json(JObj(NoMembers)),
                Json(JObj("label" :> JArr(<<JStr("k=v")>>))),
                Json(JObj("label" :> JObj("k=v" :> JBool(TRUE)))),
                Json(JObj("label" :> JObj(("k=v" :> JBool(TRUE)) @@ ("j=w" :> JBool(TRUE))))),
                Json(JObj("label" :> JArr(<<JStr("com.buildkite.sockguard.owner=other")>>))),
                Json(JObj("label" :> JArr(<<JStr("com.buildkite.sockguard.owner=me")>>))),
                Json(JObj(("name" :> JArr(<<JStr("x")>>)) @@ ("label" :> JArr(<<>>)))),
                Json(JObj(("name" :> JObj(NoMembers)) @@ ("dangling" :> JArr(<<>>)))),
                Json(JObj("label" :> JStr("k=v"))) } }

WithPrefixes(method, path, queries, bodies) ==
    { Request(method, v \o path, q, b) : v \in Prefixes, q \in queries, b \in bodies }

\* The requests of the specification of the whole Director.
Requests ==
    { Request(m, v \o p, NoQuery, EmptyBody) : m \in Methods, v \in Prefixes, p \in Paths }
    \cup WithPrefixes("POST", <<"containers", "create">>, {NoQuery}, SomeContainerCreateBodies)
    \cup WithPrefixes("POST", <<"networks", "create">>, {NoQuery}, NamedCreateBodies)
    \cup WithPrefixes("POST", <<"volumes", "create">>, {NoQuery}, NamedCreateBodies)
    \cup WithPrefixes("POST", <<"networks", "n1", "connect">>, {NoQuery},
                      {Json(JObj("Container" :> JStr("c1")))})
    \cup WithPrefixes("POST", <<"build">>, BuildQueries, {EmptyBody})
    \cup WithPrefixes("GET", <<"containers", "json">>, FilterQueries, {EmptyBody})
    \cup WithPrefixes("POST", <<"volumes", "prune">>, FilterQueries, {EmptyBody})

\* The requests of the specification of container create.
ContainerCreateRequests ==
    { Request("POST", <<"v1.32", "containers", "create">>, NoQuery, b) :
        b \in ContainerCreateBodies }

-----------------------------------------------------------------------------
(* The Director at work: one request after the other *)

Configs ==
    { Config(o, <<"/a">>, FALSE, g, l, "") :
        o \in Owners, g \in {"", "cg"}, l \in LinkOptions }

Init ==
    /\ cfg \in Configs
    /\ upstream \in UpstreamStates
    /\ req = NoRequest
    /\ pc = "idle"
    /\ out = NoOutcome
    /\ bindIn = [bind |-> <<>>, allowed |-> <<>>]
    /\ bindOut = "none"
    /\ px = <<>>

\* A client connects and sends a request.
ClientRequest ==
    /\ pc = "idle"
    /\ \E r \in Requests : req' = r
    /\ pc' = "received"
    /\ UNCHANGED <<cfg, upstream, out, bindVars, px>>

\* The connection ends. The proxy keeps nothing of a request: it is ready
\* for the next as it was for this one.
ConnectionClosed ==
    /\ pc = "answered"
    /\ pc' = "idle"
    /\ req' = NoRequest
    /\ out' = NoOutcome
    /\ UNCHANGED <<cfg, upstream, bindVars, px>>

Answered(o) ==
    /\ out' = o
    /\ pc' = "answered"
    /\ UNCHANGED <<cfg, upstream, req, bindVars, px>>

\* Direct returns upstream unchanged.
ServeUpstream ==
    /\ pc = "received" /\ Route(req) = "upstream"
    /\ Answered(Forward(req, <<>>))

\* Direct runs checkOwner and returns upstream or an error handler.
ServeCheckOwner ==
    /\ pc = "received"
    /\ \E kind \in {"containers", "images", "volumes"} :
          /\ Route(req) = CheckOwnerRoute[kind]
          /\ Answered(DirectCheckOwner(cfg, upstream, kind, AllowEmptyOf(kind), req))

ServeNetworkPassThrough ==
    /\ pc = "received" /\ Route(req) = "networkPassThrough"
    /\ Answered(DirectNetworkPassThrough(req))

ServeNotImplemented ==
    /\ pc = "received" /\ Route(req) = "notImplemented"
    /\ Answered(DirectNotImplemented(req))

ServeContainerCreate ==
    /\ pc = "received" /\ Route(req) = "containerCreate"
    /\ Answered(handleContainerCreate(cfg, req))

ServeBuild ==
    /\ pc = "received" /\ Route(req) = "build"
    /\ Answered(handleBuild(cfg, req))

ServeAddLabelsToBody ==
    /\ pc = "received" /\ Route(req) = "addLabelsToBody"
    /\ Answered(addLabelsToBody(cfg, req))

ServeFilters ==
    /\ pc = "received" /\ Route(req) = "filters"
    /\ \E o \in addLabelsToQueryStringFilters(cfg, req) : Answered(o)

ServeNetworkCreate ==
    /\ pc = "received" /\ Route(req) = "networkCreate"
    /\ \E syn \in SyntheticAnswers : Answered(handleNetworkCreate(cfg, req, syn))

ServeNetworkDelete ==
    /\ pc = "received" /\ Route(req) = "networkDelete"
    /\ \E syn \in SyntheticAnswers : Answered(handleNetworkDelete(cfg, upstream, req, syn))

\* func (r *rulesDirector) Direct(l, req, upstream), followed by the handler
\* it returned: every outcome the request can have.
Direct(c, u, r) ==
    LET route == Route(r)
    IN  IF route = "upstream" THEN {Forward(r, <<>>)}
        ELSE IF route \in {CheckOwnerRoute[kind] : kind \in DOMAIN CheckOwnerRoute}
             THEN {DirectCheckOwner(c, u, kind, AllowEmptyOf(kind), r) :
                      kind \in {k \in DOMAIN CheckOwnerRoute : CheckOwnerRoute[k] = route}}
        ELSE IF route = "networkPassThrough" THEN {DirectNetworkPassThrough(r)}
        ELSE IF route = "notImplemented" THEN {DirectNotImplemented(r)}
        ELSE IF route = "containerCreate" THEN {handleContainerCreate(c, r)}
        ELSE IF route = "build" THEN {handleBuild(c, r)}
        ELSE IF route = "addLabelsToBody" THEN {addLabelsToBody(c, r)}
        ELSE IF route = "filters" THEN addLabelsToQueryStringFilters(c, r)
        ELSE IF route = "networkCreate"
             THEN {handleNetworkCreate(c, r, syn) : syn \in SyntheticAnswers}
        ELSE {handleNetworkDelete(c, u, r, syn) : syn \in SyntheticAnswers}

Next ==
    \/ ClientRequest
    \/ ConnectionClosed
    \/ ServeUpstream
    \/ ServeCheckOwner
    \/ ServeNetworkPassThrough
    \/ ServeNotImplemented
    \/ ServeContainerCreate
    \/ ServeBuild
    \/ ServeAddLabelsToBody
    \/ ServeFilters
    \/ ServeNetworkCreate
    \/ ServeNetworkDelete

Spec == Init /\ [][Next]_vars

-----------------------------------------------------------------------------
(* Container create alone, over every combination of the body's members *)

CreateConfigs ==
    { Config(o, b, h, g, l, u) :
        o \in Owners, b \in {<<>>, <<"/a">>}, h \in BOOLEAN, g \in {"", "cg"},
        l \in {k \in LinkOptions : k.join = ""}, u \in {"", "usr"} }

InitCreate ==
    /\ cfg \in CreateConfigs
    /\ upstream = [r \in Resources |-> NotFound]
    /\ req = NoRequest
    /\ pc = "idle"
    /\ out = NoOutcome
    /\ bindIn = [bind |-> <<>>, allowed |-> <<>>]
    /\ bindOut = "none"
    /\ px = <<>>

ClientCreateRequest ==
    /\ pc = "idle"
    /\ \E r \in ContainerCreateRequests : req' = r
    /\ pc' = "received"
    /\ UNCHANGED <<cfg, upstream, out, bindVars, px>>

NextCreate == ClientCreateRequest \/ ServeContainerCreate \/ ConnectionClosed

SpecCreate == InitCreate /\ [][NextCreate]_vars

-----------------------------------------------------------------------------
(* SocketProxy.ServeHTTP: one accepted client connection                   *)

\* The most requests a client writes on its connection after the first.
MaxPipelined == 2

\* http.Serve parsed the first request of the connection; Close is the
\* request's Close field, set when the client sent "Connection: close".
FirstRequests ==
    { [line |-> "GET /_ping", Close |-> c] : c \in BOOLEAN }

\* What a client may write on the same connection after its first request.
PipelinedRequests ==
    { [line |-> "DELETE /containers/c1", Close |-> FALSE] }

PipelinedSequences ==
    UNION { [1..n -> PipelinedRequests] : n \in 0..MaxPipelined }

\* req.Write: the serialised request carries "Connection: close" exactly
\* when the request's Close field is set; ServeHTTP sets no header.
WriteRequest(r) == [line |-> r.line, connectionClose |-> r.Close]

\* The bytes a client writes for a request of its own.
ClientBytes(r) == [line |-> r.line, connectionClose |-> r.Close]

ResponseTo(m) == [to |-> m.line]

InitProxy ==
    /\ cfg = <<>> /\ upstream = <<>> /\ req = <<>>
    /\ pc = "proxy" /\ out = <<>>
    /\ bindIn = [bind |-> <<>>, allowed |-> <<>>]
    /\ bindOut = "none"
    /\ \E first \in FirstRequests, pending \in PipelinedSequences :
           px = [ first        |-> first,
                  pending      |-> pending,
                  at           |-> "dial",
                  status       |-> 0,
                  written      |-> <<>>,
                  c2u          |-> "idle",
                  u2c          |-> "idle",
                  sockClosed   |-> FALSE,
                  connClosed   |-> FALSE,
                  clientOpen   |-> TRUE,
                  fromClient   |-> <<>>,
                  toClient     |-> <<>>,
                  upstreamOpen |-> TRUE,
                  toUpstream   |-> <<>>,
                  fromUpstream |-> <<>>,
                  executed     |-> <<>> ]

ProxyStep(next) ==
    /\ pc = "proxy"
    /\ px' = next
    /\ UNCHANGED <<directorVars, bindVars>>

\* net.Dial succeeds.
Dial ==
    /\ px.at = "dial"
    /\ ProxyStep([px EXCEPT !.at = "hijack"])

\* net.Dial fails: 500 "Error contacting backend server."
DialFails ==
    /\ px.at = "dial"
    /\ ProxyStep([px EXCEPT !.at = "done",
                            !.status = StatusInternalServerError,
                            !.upstreamOpen = FALSE])

\* hj.Hijack, then the check of the buffered reader.  Bytes the client
\* wrote by now may already sit in the server's buffered reader
\* (panic("buffered"), the deferred Close calls run) or still in the socket.
Hijack ==
    /\ px.at = "hijack"
    /\ \/ ProxyStep([px EXCEPT !.at = "write"])
       \/ /\ px.fromClient # <<>>
          /\ ProxyStep([px EXCEPT !.at = "panic",
                                  !.sockClosed = TRUE,
                                  !.connClosed = TRUE])

\* req.Write(sock), then the two copy goroutines start.
WriteToSock ==
    /\ px.at = "write"
    /\ LET m == WriteRequest(px.first)
       IN  ProxyStep([px EXCEPT !.at = "copy",
                                !.written = Append(@, m),
                                !.toUpstream = Append(@, m),
                                !.c2u = "run",
                                !.u2c = "run"])

\* io.Copy(sock, reqConn): one read from the client written to upstream;
\* the write fails once the upstream has closed.
CopyClientToUpstream ==
    /\ px.c2u = "run"
    /\ px.fromClient # <<>>
    /\ IF px.upstreamOpen
       THEN ProxyStep([px EXCEPT !.fromClient = Tail(@),
                                 !.toUpstream = Append(@, Head(px.fromClient))])
       ELSE ProxyStep([px EXCEPT !.fromClient = Tail(@), !.c2u = "done"])

\* io.Copy(sock, reqConn) reads EOF: the client closed its end.
ClientToUpstreamEOF ==
    /\ px.c2u = "run"
    /\ px.fromClient = <<>>
    /\ ~px.clientOpen
    /\ ProxyStep([px EXCEPT !.c2u = "done"])

\* A mutation of the copy to the client: each chunk is written twice.
CopyUpstreamToClientTwice ==
    /\ px.u2c = "run"
    /\ px.fromUpstream # <<>>
    /\ ProxyStep([px EXCEPT !.fromUpstream = Tail(@),
                            !.toClient = @ \o <<Head(px.fromUpstream), Head(px.fromUpstream)>>])

\* io.Copy(reqConn, sock): one read from upstream written to the client;
\* the write fails once the client has closed.
CopyUpstreamToClient ==
    /\ px.u2c = "run"
    /\ px.fromUpstream # <<>>
    /\ IF px.clientOpen
       THEN ProxyStep([px EXCEPT !.fromUpstream = Tail(@),
                                 !.toClient = Append(@, Head(px.fromUpstream))])
       ELSE ProxyStep([px EXCEPT !.fromUpstream = Tail(@), !.u2c = "done"])

\* io.Copy(reqConn, sock) reads EOF: the upstream closed its end.
UpstreamToClientEOF ==
    /\ px.u2c = "run"
    /\ px.fromUpstream = <<>>
    /\ ~px.upstreamOpen
    /\ ProxyStep([px EXCEPT !.u2c = "done"])

\* A mutation of wg.Wait: it returns once either copy has ended.
ReturnAfterEitherCopy ==
    /\ px.at = "copy"
    /\ px.c2u = "done" \/ px.u2c = "done"
    /\ ProxyStep([px EXCEPT !.at = "done",
                            !.sockClosed = TRUE,
                            !.connClosed = TRUE])

\* wg.Wait returns; the deferred reqConn.Close and sock.Close run.
Return ==
    /\ px.at = "copy"
    /\ px.c2u = "done"
    /\ px.u2c = "done"
    /\ ProxyStep([px EXCEPT !.at = "done",
                            !.sockClosed = TRUE,
                            !.connClosed = TRUE])

\* The client writes a further request on its connection.
ClientSend ==
    /\ px.clientOpen
    /\ ~px.connClosed
    /\ px.pending # <<>>
    /\ ProxyStep([px EXCEPT !.pending = Tail(@),
                            !.fromClient = Append(@, ClientBytes(Head(px.pending)))])

\* The client closes its end.
ClientClose ==
    /\ px.clientOpen
    /\ ProxyStep([px EXCEPT !.clientOpen = FALSE])

\* The upstream HTTP server reads the next request from its connection,
\* executes it and writes the response; it keeps the connection open for a
\* further request unless the request carried "Connection: close".
UpstreamServe ==
    /\ px.upstreamOpen
    /\ px.toUpstream # <<>>
    /\ LET m == Head(px.toUpstream)
       IN  ProxyStep([px EXCEPT !.toUpstream = Tail(@),
                                !.executed = Append(@, m.line),
                                !.fromUpstream = Append(@, ResponseTo(m)),
                                !.upstreamOpen = ~m.connectionClose])

\* The upstream closes its end: it read EOF after the worker closed sock,
\* or it gave up an idle connection after a response.
UpstreamClose ==
    /\ px.upstreamOpen
    /\ px.toUpstream = <<>>
    /\ px.sockClosed \/ px.executed # <<>>
    /\ ProxyStep([px EXCEPT !.upstreamOpen = FALSE])

NextProxy ==
    \/ Dial
    \/ DialFails
    \/ Hijack
    \/ WriteToSock
    \/ CopyClientToUpstream
    \/ ClientToUpstreamEOF
    \/ CopyUpstreamToClient
    \/ UpstreamToClientEOF
    \/ Return
    \/ ClientSend
    \/ ClientClose
    \/ UpstreamServe
    \/ UpstreamClose

SpecProxy == InitProxy /\ [][NextProxy]_vars

\* The worker's own steps, its two goroutines and the upstream server keep
\* running when they can; what the client does, and whether the upstream
\* closes an idle connection, is up to them.
ProxyFairness ==
    /\ WF_vars(Dial \/ DialFails)
    /\ WF_vars(Hijack)
    /\ WF_vars(WriteToSock)
    /\ WF_vars(CopyClientToUpstream)
    /\ WF_vars(ClientToUpstreamEOF)
    /\ WF_vars(CopyUpstreamToClient)
    /\ WF_vars(UpstreamToClientEOF)
    /\ WF_vars(Return)
    /\ WF_vars(UpstreamServe)

SpecProxyFair == SpecProxy /\ ProxyFairness

-----------------------------------------------------------------------------
(* An owner-checked request, the engine's other clients, and the moment the  *)
(* engine executes what was forwarded                                       *)

\* Requests on one resource of each kind, each routed to an owner check.
RaceRequests ==
    { r \in { Request(m, v \o <<res[1]>> \o res[2], NoQuery, EmptyBody) :
                 m \in Methods, v \in Prefixes, res \in Resources } :
        Route(r) \in {"checkOwner:containers", "checkOwner:images",
                      "checkOwner:volumes", "networkDelete"} }

ClientRaceRequest ==
    /\ pc = "idle"
    /\ \E r \in RaceRequests : req' = r
    /\ pc' = "received"
    /\ UNCHANGED <<cfg, upstream, out, bindVars, px>>

\* Another client of the engine deletes, creates or relabels a resource
\* after the handler's inspect was answered and before the engine has
\* executed the forwarded request: the inspect and the forward are separate
\* requests on separate connections, and the proxy holds no lock on the
\* engine between them.
OtherActor ==
    /\ pc = "answered" /\ IsForwarded(out)
    /\ \E u \in UpstreamStates : u # upstream /\ upstream' = u
    /\ UNCHANGED <<cfg, req, pc, out, bindVars, px>>

\* The engine executes the forwarded request, on the state it has now.
UpstreamExecutes ==
    /\ pc = "answered" /\ IsForwarded(out)
    /\ pc' = "executed"
    /\ UNCHANGED <<cfg, upstream, req, out, bindVars, px>>

\* The engine's response was relayed and the connection ends.
ExecutionDone ==
    /\ pc = "executed"
    /\ pc' = "idle"
    /\ req' = NoRequest
    /\ out' = NoOutcome
    /\ UNCHANGED <<cfg, upstream, bindVars, px>>

NextRace ==
    \/ ClientRaceRequest
    \/ ServeCheckOwner
    \/ ServeNetworkDelete
    \/ OtherActor
    \/ UpstreamExecutes
    \/ ExecutionDone
    \/ ConnectionClosed

SpecRace == Init /\ [][NextRace]_vars

-----------------------------------------------------------------------------
(* The vocabulary of the claims about binds *)

\* The text of a bind before its first ':'.
SourceOf(bind) ==
    IF \E i \in 1..Len(bind) : bind[i] = ":"
    THEN SubSeq(bind, 1, (CHOOSE i \in 1..Len(bind) :
                              /\ bind[i] = ":"
                              /\ \A j \in 1..(i - 1) : bind[j] # ":") - 1)
    ELSE bind

\* The segments of a path: the texts between its '/' characters.
RECURSIVE Segments(_, _)
Segments(s, cur) ==
    IF s = <<>> THEN <<cur>>
    ELSE IF Head(s) = "/" THEN <<cur>> \o Segments(Tail(s), <<>>)
    ELSE Segments(Tail(s), Append(cur, Head(s)))

\* Resolve '.', '..' and empty segments from left to right; '..' at the
\* root stays at the root.
RECURSIVE ResolveSegments(_, _)
ResolveSegments(segs, kept) ==
    IF segs = <<>> THEN kept
    ELSE LET sg == Head(segs)
         IN  ResolveSegments(Tail(segs),
                 IF sg = <<>> \/ sg = <<".">> THEN kept
                 ELSE IF sg = <<".", ".">>
                      THEN (IF kept = <<>> THEN kept ELSE SubSeq(kept, 1, Len(kept) - 1))
                 ELSE Append(kept, sg))

RECURSIVE JoinAbsolute(_)
JoinAbsolute(segs) ==
    IF segs = <<>> THEN <<>>
    ELSE <<"/">> \o Head(segs) \o JoinAbsolute(Tail(segs))

\* The cleaned absolute form of a source: "/" + source, resolved.
CleanedAbsolute(source) ==
    LET kept == ResolveSegments(Segments(<<"/">> \o source, <<>>), <<>>)
    IN  IF kept = <<>> THEN <<"/">> ELSE JoinAbsolute(kept)

IsVolumeName(source) == \A i \in 1..Len(source) : source[i] \notin {".", "/", "\\"}

\* path is dir itself or lies beneath it as a directory.
IsUnder(path, dir) ==
    \/ path = dir
    \/ HasPrefix(path, IF dir # <<>> /\ dir[Len(dir)] = "/" THEN dir ELSE Append(dir, "/"))

-----------------------------------------------------------------------------
(* The vocabulary of the claims about the Director *)

\* The labels object holds the owner label with the owner's value.
OwnerIn(labels, owner) ==
    /\ Has(labels, ownerKey)
    /\ labels.v[ownerKey].t = "str"
    /\ labels.v[ownerKey].v = owner

\* The request carries the owner label where its endpoint takes labels: the
\* labels query parameter of /build, the Labels member of a create body.
CarriesOwnerLabel(r, owner) ==
    IF StripVersion(r.path) = <<"build">>
    THEN r.query.labels.t = "json" /\ OwnerIn(r.query.labels.v, owner)
    ELSE r.body.t = "json" /\ OwnerIn(Member(r.body.v, "Labels"), owner)

CreateRoutes == {"containerCreate", "networkCreate", "addLabelsToBody", "build"}

\* The handler's first upstream call was an inspect.
Inspected(o) == o.calls # <<>> /\ o.calls[1].type = "inspect"

\* The identifier in the path of the inspect request the handler sent.
InspectedId(o, kind) ==
    LET p == o.calls[1].req.path
    IN  IF kind \in {"containers", "images"}
        THEN SubSeq(p, 3, Len(p) - 1)
        ELSE SubSeq(p, 3, Len(p))

\* The inspect answer names an owner other than the given one.
OwnedByAnother(answer, owner) ==
    /\ answer.status = StatusOK
    /\ ownerKey \in DOMAIN answer.labels
    /\ answer.labels[ownerKey] # owner

Refused(o) == o.resp = StatusUnauthorized /\ ~IsForwarded(o)

\* C1: every forwarded POST to /containers/create, /networks/create,
\* /volumes/create or /build carries the owner label (in the body's Labels,
\* or in the labels query parameter for /build), whatever the client sent.
C1_ForwardedCreateCarriesOwnerLabel ==
    (pc = "answered" /\ Route(req) \in CreateRoutes /\ IsForwarded(out))
        => CarriesOwnerLabel(ForwardedRequest(out), cfg.Owner)

C3_NetworkRoutesOwnerChecked ==
    (pc = "answered" /\ Route(req) = "networkPassThrough") =>
        LET p == StripVersion(req.path)
        IN  OwnedByAnother(InspectAnswer(upstream, "networks", <<p[2]>>), cfg.Owner)
                => Refused(out)

\* C4: the identifier an owner check inspects is the identifier of the
\* resource the request acts on ({id} of /containers/{id}/..., {name} of
\* /images/{name}/...), so a request on a resource of another owner is
\* refused whatever action suffix follows the identifier.
C4_InspectsTheTargetResource ==
    \A kind \in {"containers", "images"} :
        (pc = "answered" /\ Route(req) = CheckOwnerRoute[kind]
                         /\ StripVersion(req.path)[1] = kind) =>
            LET target == <<StripVersion(req.path)[2]>>
            IN  /\ Inspected(out) => InspectedId(out, kind) = target
                /\ OwnedByAnother(InspectAnswer(upstream, kind, target), cfg.Owner)
                       => Refused(out)

\* C5: upstream interprets at most one request per client connection, the
\* one handed to ServeHTTP: the request written to upstream carries
\* Connection: close, and nothing the client writes after its first request
\* is executed by upstream.
C5_UpstreamRunsOnlyTheDirectedRequest ==
    pc = "proxy" =>
        /\ \A i \in 1..Len(px.written) : px.written[i].connectionClose
        /\ Len(px.executed) <= 1
        /\ \A i \in 1..Len(px.executed) : px.executed[i] = px.first.line

\* A container create body that breaks the policy of the configuration:
\* Privileged true, host network mode while it is not allowed, a bind the
\* bind policy refuses, or a CgroupParent while none is configured.
PolicyViolation(c, body) ==
    /\ body.t = "json"
    /\ IsObj(Member(body.v, "HostConfig"))
    /\ LET hostConfig   == Member(body.v, "HostConfig")
           privileged   == Member(hostConfig, "Privileged")
           networkMode  == Member(hostConfig, "NetworkMode")
           binds        == Member(hostConfig, "Binds")
           cgroupParent == Member(hostConfig, "CgroupParent")
       IN  \/ privileged.t = "bool" /\ privileged.v
           \/ networkMode.t = "str" /\ networkMode.v = "host" /\ ~c.AllowHostModeNetworking
           \/ /\ binds.t = "arr"
              /\ \E i \in 1..Len(binds.v) :
                     /\ binds.v[i].t = "str"
                     /\ ~isBindAllowed(CharsOf[binds.v[i].v],
                                       [k \in 1..Len(c.AllowBinds) |-> CharsOf[c.AllowBinds[k]]])
           \/ cgroupParent.t = "str" /\ cgroupParent.v # "" /\ c.ContainerCgroupParent = ""

\* C6: a container create whose body breaks the policy (Privileged true,
\* host network mode while disabled, a disallowed bind, a CgroupParent while
\* none is configured) is answered 401 and upstream is never invoked,
\* whatever the other members of the body.
C6_PolicyViolationsAreRefused ==
    (pc = "answered" /\ Route(req) = "containerCreate" /\ PolicyViolation(cfg, req.body))
        => (out.resp = StatusUnauthorized /\ out.calls = <<>>)

\* C7: with one allowed bind path P, every host bind of a forwarded container
\* create is P or lies beneath P as a directory.
C7_ForwardedBindsBeneathAllowedPath ==
    (pc = "answered" /\ Route(req) = "containerCreate" /\ IsForwarded(out)
                     /\ Len(cfg.AllowBinds) = 1) =>
        LET allowed == CharsOf[cfg.AllowBinds[1]]
            binds   == Member(Member(ForwardedRequest(out).body.v, "HostConfig"), "Binds")
        IN  binds.t = "arr" =>
                \A i \in 1..Len(binds.v) :
                    (binds.v[i].t = "str" /\ ~IsVolumeName(SourceOf(CharsOf[binds.v[i].v])))
                        => IsUnder(CleanedAbsolute(SourceOf(CharsOf[binds.v[i].v])), allowed)

C9_OnlyImagesWithoutOwnerLabel ==
    LET p == StripVersion(req.path)
    IN  ( /\ pc = "answered"
          /\ Len(p) = 2
          /\ \/ p[1] = "volumes" /\ req.method \in {"GET", "DELETE"}
             \/ p[1] = "networks" /\ req.method = "DELETE"
          /\ InspectAnswer(upstream, p[1], <<p[2]>>) = Found(NoMembers) )
            => ~IsForwarded(out)

\* The request has nothing but its cgroup parent for a 401 to refuse.
OnlyCgroupParentGiven(r) ==
    IF Route(r) = "build" THEN IsSet(r.query.cgroupparent)
    ELSE /\ Route(r) = "containerCreate"
         /\ r.body.t = "json"
         /\ LET hostConfig == Member(r.body.v, "HostConfig")
                given      == Member(hostConfig, "CgroupParent")
            IN  /\ IsObj(hostConfig)
                /\ DOMAIN hostConfig.v \subseteq {"CgroupParent", "Links"}
                /\ given.t = "str" /\ given.v # ""

\* The cgroup parent of a forwarded build or container create.
ForwardedCgroupParent(r) ==
    IF Route(r) = "build" THEN r.query.cgroupparent
    ELSE Member(Member(r.body.v, "HostConfig"), "CgroupParent")

\* C10: with a cgroup parent configured, a build or container create that
\* gives a cgroup parent of its own is not refused for it: the configured
\* value overwrites the client's and the request goes on.
C10_ConfiguredCgroupParentOverwrites ==
    (pc = "answered" /\ cfg.ContainerCgroupParent # "" /\ OnlyCgroupParentGiven(req)) =>
        /\ out.resp # StatusUnauthorized
        /\ IsForwarded(out) =>
               ForwardedCgroupParent(ForwardedRequest(out)) = JStr(cfg.ContainerCgroupParent)

\* The place of the forwarded request among the handler's upstream calls.
ForwardIndex(o) == CHOOSE i \in 1..Len(o.calls) : o.calls[i].type = "forward"

\* The inspect answer lets the owner through where a missing label is allowed.
AllowedOrUnlabelled(answer, owner) ==
    /\ answer.status = StatusOK
    /\ ownerKey \in DOMAIN answer.labels => answer.labels[ownerKey] = owner

\* The synthetic POST /v1.32/networks/<id>/disconnect for the sibling.
DisconnectOf(id, sibling) ==
    Request("POST", <<"v1.32", "networks", id, "disconnect">>, NoQuery,
            Json(JObj(("Container" :> JStr(sibling)) @@ ("Force" :> JBool(TRUE)))))

\* C11: DELETE /networks/{id} reaches upstream only after the owner check on
\* that network allowed it and, with a docker link or a join network
\* configured, only after the synthetic disconnect of the sibling from that
\* network was answered 200. A network of another owner is answered 401 with
\* neither disconnect nor delete sent; a disconnect not answered 200 leaves
\* the delete unsent.
C11_DeleteAfterCheckAndDisconnect ==
    (pc = "answered" /\ Route(req) = "networkDelete" /\ Len(StripVersion(req.path)) = 2) =>
        LET id     == StripVersion(req.path)[2]
            answer == InspectAnswer(upstream, "networks", <<id>>)
            n      == Len(out.calls)
        IN  /\ IsForwarded(out) =>
                /\ out.calls[n].type = "forward" /\ out.calls[n].req = req
                /\ Inspected(out) /\ InspectedId(out, "networks") = <<id>>
                /\ AllowedOrUnlabelled(answer, cfg.Owner)
                /\ IF HasSibling(cfg)
                   THEN /\ n = 3
                        /\ out.calls[2].type = "disconnect"
                        /\ out.calls[2].req = DisconnectOf(id, Sibling(cfg))
                        /\ out.calls[2].status = StatusOK
                   ELSE n = 2
            /\ OwnedByAnother(answer, cfg.Owner) =>
                   (out.resp = StatusUnauthorized /\ n = 1 /\ Inspected(out))
            /\ \A i \in 1..n :
                   (out.calls[i].type = "disconnect" /\ out.calls[i].status # StatusOK)
                       => ~IsForwarded(out)

\* C11 witness: with a sibling configured, the delete of the owner's network
\* was forwarded after the inspect and a disconnect answered 200.
C11_Witness ==
    /\ pc = "answered"
    /\ Route(req) = "networkDelete"
    /\ HasSibling(cfg)
    /\ Len(out.calls) = 3
    /\ out.calls[2].type = "disconnect" /\ out.calls[2].status = StatusOK
    /\ out.calls[3].type = "forward"


\* The connect body the sibling options call for: Container is the container
\* part of the docker link when one is set, the join network otherwise;
\* EndpointConfig.Aliases is there iff the join network names the sibling and
\* an alias is set.
ExpectedConnectBody(c) ==
    LET sibling == IF c.ContainerDockerLink # ""
                   THEN LinkParts[c.ContainerDockerLink][1]
                   ELSE c.ContainerJoinNetwork
        aliased == c.ContainerDockerLink = "" /\ c.ContainerJoinNetwork # ""
                       /\ c.ContainerJoinNetworkAlias # ""
    IN  IF aliased
        THEN JObj(("Container" :> JStr(sibling)) @@
                  ("EndpointConfig" :>
                      JObj("Aliases" :> JArr(<<JStr(c.ContainerJoinNetworkAlias)>>))))
        ELSE JObj("Container" :> JStr(sibling))

\* C12: for POST /networks/create with a body whose Name is a string: with a
\* docker link or a join network configured exactly one synthetic
\* POST /v1.32/networks/<Name>/connect is issued, after the forwarded create,
\* with the body the options call for; with neither configured no connect is
\* issued.
C12_OneConnectAfterCreate ==
    ( /\ pc = "answered" /\ Route(req) = "networkCreate"
      /\ req.body.t = "json" /\ Member(req.body.v, "Name").t = "str" ) =>
        LET name     == Member(req.body.v, "Name").v
            connects == {i \in 1..Len(out.calls) : out.calls[i].type = "connect"}
        IN  IF HasSibling(cfg)
            THEN /\ Cardinality(connects) = 1
                 /\ IsForwarded(out)
                 /\ \A i \in connects :
                        /\ i > ForwardIndex(out)
                        /\ out.calls[i].req =
                               Request("POST", <<"v1.32", "networks", name, "connect">>,
                                       NoQuery, Json(ExpectedConnectBody(cfg)))
            ELSE connects = {}

\* The kind of resource the owner check of the request's route inspects.
OwnerCheckedKind(r) ==
    CASE Route(r) = "checkOwner:containers" -> "containers"
      [] Route(r) = "checkOwner:images"     -> "images"
      [] Route(r) = "checkOwner:volumes"    -> "volumes"
      [] Route(r) = "networkDelete"         -> "networks"

OwnerCheckRoutes ==
    {"checkOwner:containers", "checkOwner:images", "checkOwner:volumes", "networkDelete"}

\* C13: when the inspect of an owner check is answered 404, the action
\* forwards the request unmodified and answers nothing itself; so does
\* DELETE /networks/{id} for a network that does not exist.
C13_InspectNotFoundForwards ==
    (pc = "answered" /\ Route(req) \in OwnerCheckRoutes /\ Inspected(out)) =>
        LET kind   == OwnerCheckedKind(req)
            answer == InspectAnswer(upstream, kind, InspectedId(out, kind))
        IN  answer.status = StatusNotFound =>
                /\ IsForwarded(out)
                /\ ForwardedRequest(out) = req
                /\ out.resp = 0

\* The values a filter key holds: the elements of an array, the member names
\* of a legacy object.
FilterValueSet(x) ==
    IF x.t = "obj" THEN {JStr(k) : k \in DOMAIN x.v}
    ELSE IF x.t = "arr" THEN {x.v[i] : i \in 1..Len(x.v)}
    ELSE {}

\* C14: whatever filters value the client sent to a listing, prune or events
\* endpoint, the forwarded filters parameter is a JSON object whose label
\* array holds com.buildkite.sockguard.owner=<owner> exactly once and every
\* label value the client supplied; the other filter keys and the other
\* query parameters are kept.
C14_FiltersCarryOwnerLabelOnce ==
    (pc = "answered" /\ Route(req) = "filters" /\ IsForwarded(out)) =>
        LET sent   == ForwardedRequest(out).query
            f      == sent.filters
            given  == IF req.query.filters.t = "json" /\ IsObj(req.query.filters.v)
                      THEN req.query.filters.v.v ELSE NoMembers
            label  == Member(f.v, "label")
            owner  == JStr(OwnerLabelFilter[cfg.Owner])
        IN  /\ f.t = "json" /\ IsObj(f.v)
            /\ label.t = "arr"
            /\ Cardinality({i \in 1..Len(label.v) : label.v[i] = owner}) = 1
            /\ "label" \in DOMAIN given =>
                   FilterValueSet(given["label"]) \subseteq FilterValueSet(label)
            /\ \A k \in DOMAIN given \ {"label"} :
                   /\ Has(f.v, k)
                   /\ f.v.v[k].t = "arr"
                   /\ FilterValueSet(f.v.v[k]) = FilterValueSet(given[k])
            /\ sent.labels = req.query.labels
            /\ sent.cgroupparent = req.query.cgroupparent

\* The listing, prune and events endpoints the specification lists as filtered.
FilteredEndpoints ==
    { <<"GET", <<"events">>>>, <<"POST", <<"containers", "prune">>>>,
      <<"GET", <<"containers", "json">>>>, <<"POST", <<"build", "prune">>>>,
      <<"GET", <<"images", "json">>>>, <<"POST", <<"images", "prune">>>>,
      <<"GET", <<"networks">>>>, <<"POST", <<"networks", "prune">>>>,
      <<"GET", <<"volumes">>>>, <<"POST", <<"volumes", "prune">>>> }

\* C15: GET /events, POST /containers/prune, GET /containers/json,
\* POST /build/prune, GET /images/json, POST /images/prune, GET /networks,
\* POST /networks/prune, GET /volumes and POST /volumes/prune, with or without
\* a version prefix, are answered by filter injection, and never by an owner
\* check on a word of the path.
C15_ListingsAreFiltered ==
    (pc = "answered" /\ <<req.method, StripVersion(req.path)>> \in FilteredEndpoints) =>
        /\ Route(req) = "filters"
        /\ out \in addLabelsToQueryStringFilters(cfg, req)
        /\ ~Inspected(out)

\* The exec endpoints the specification lists under the container owner check.
ExecEndpoints ==
    { <<"exec", "e1", "start">>, <<"exec", "e1", "resize">>, <<"exec", "e1", "json">> }

\* C16: a request to /exec/{id}/start, /exec/{id}/resize or /exec/{id}/json is
\* answered by the container owner check: the identifier is inspected
\* upstream, and the request is forwarded when the check allows it or the
\* inspect answers 404, and answered 401 when the check denies it.
C16_ExecIsOwnerChecked ==
    (pc = "answered" /\ StripVersion(req.path) \in ExecEndpoints) =>
        /\ Route(req) = "checkOwner:containers"
        /\ Inspected(out)
        /\ \/ IsForwarded(out) /\ ForwardedRequest(out) = req
           \/ out.resp = StatusUnauthorized

\* The cases of the switch in Direct, as (method, pattern) pairs.
SwitchCases ==
    { <<"GET", "^/(_ping|version|info)$">>, <<"GET", "^/events$">>,
      <<"POST", "^/containers/create$">>, <<"POST", "^/containers/prune$">>,
      <<"GET", "^/containers/json$">>, <<"*", "^/(containers|exec)/(\\w+)\\b">>,
      <<"POST", "^/build$">>, <<"GET", "^/images/json$">>,
      <<"POST", "^/images/create$">>, <<"POST", "^/images/(create|search|get|load)$">>,
      <<"POST", "^/images/prune$">>, <<"*", "^/images/(\\w+)\\b">>,
      <<"GET", "^/networks$">>, <<"POST", "^/networks/create$">>,
      <<"POST", "^/networks/prune$">>, <<"DELETE", "^/networks/(.+)$">>,
      <<"GET", "^/networks/(.+)$">>, <<"POST", "^/networks/(.+)/(connect|disconnect)$">>,
      <<"GET", "^/volumes$">>, <<"POST", "^/volumes/create$">>,
      <<"POST", "^/volumes/prune$">>, <<"GET", "^/volumes/(\\w+)$">>,
      <<"DELETE", "^/volumes/(\\w+)$">> }

MatchesNoCase(r) == \A case \in SwitchCases : ~match(r, case[1], case[2])

\* C17: a request whose method and path match no case of the route table is
\* answered 501 with the message "METHOD PATH not implemented yet", METHOD
\* and PATH being the request's own, and nothing is sent upstream for it:
\* neither the request nor an inspect nor a synthetic call.
C17_UnmatchedIsNotImplemented ==
    (pc = "answered" /\ MatchesNoCase(req)) =>
        /\ out.resp = StatusNotImplemented
        /\ out.msg = Message(req.method, req.path, " not implemented yet")
        /\ out.calls = <<>>
        /\ ~out.panic

C17_Witness ==
    /\ pc = "answered" /\ MatchesNoCase(req)
    /\ req.method = "DELETE" /\ req.path = <<"v1.32", "commit">>
    /\ out.resp = StatusNotImplemented /\ out.calls = <<>>

\* C18: a request of any method whose version-stripped path matches
\* ^/images/(\w+)\b, other than GET /images/json and POST /images/prune, is
\* answered by the image owner check with allowMissingLabel = true; so are
\* POST /images/create, /images/search, /images/get and /images/load, which
\* are neither forwarded without an inspect nor answered 501.
C18_ImagesAreOwnerChecked ==
    (/\ pc = "answered"
     /\ match(req, "*", "^/images/(\\w+)\\b")
     /\ ~match(req, "GET", "^/images/json$")
     /\ ~match(req, "POST", "^/images/prune$")) =>
        /\ Route(req) = CheckOwnerRoute["images"]
        /\ out = DirectCheckOwner(cfg, upstream, "images", TRUE, req)
        /\ IsForwarded(out) => Inspected(out)
        /\ out.resp # StatusNotImplemented

\* The create body decodes to an object with a HostConfig object and passes
\* the policy checks: nothing privileged, no host networking unless allowed,
\* every bind a string beneath an allowed path, no cgroup parent of its own.
PassesPolicyChecks(c, body) ==
    /\ body.t = "json" /\ IsObj(body.v)
    /\ IsObj(Member(body.v, "HostConfig"))
    /\ ~PolicyViolation(c, body)
    /\ LET hostConfig == Member(body.v, "HostConfig")
           binds      == Member(hostConfig, "Binds")
       IN  /\ Member(hostConfig, "CgroupParent") = JStr("")
           /\ binds.t = "arr" => \A i \in 1..Len(binds.v) : binds.v[i].t = "str"

\* The Links of a create body as a sequence: absent and null are empty.
ClientLinks(body) ==
    LET links == Member(Member(body.v, "HostConfig"), "Links")
    IN  IF links.t = "arr" THEN links.v ELSE <<>>

\* C19: with a docker link configured, every container create that passes
\* the policy checks is forwarded, and its HostConfig.Links is the client's
\* Links in their order followed by the configured link; a Links that is
\* absent or null counts as empty, so the forwarded Links is the configured
\* link alone.
C19_LinksEndWithDockerLink ==
    (/\ pc = "answered" /\ Route(req) = "containerCreate"
     /\ cfg.ContainerDockerLink # ""
     /\ PassesPolicyChecks(cfg, req.body)) =>
        /\ IsForwarded(out)
        /\ Member(Member(ForwardedRequest(out).body.v, "HostConfig"), "Links") =
               JArr(ClientLinks(req.body) \o <<JStr(cfg.ContainerDockerLink)>>)

\* The member of a JSON object, Absent when the object does not have it.
Sent(j, name) == IF Has(j, name) THEN Member(j, name) ELSE Absent

\* C20: in the body of every forwarded container create, User is the
\* configured user when one is configured, HostConfig.CgroupParent is the
\* configured cgroup parent when one is configured, and the last element of
\* HostConfig.Links is the configured docker link when one is configured;
\* each of the three is forwarded as the client sent it when its option is
\* not configured.
C20_ConfiguredFieldsAreForced ==
    (pc = "answered" /\ Route(req) = "containerCreate" /\ IsForwarded(out)) =>
        LET client   == req.body.v
            sent     == ForwardedRequest(out).body.v
            clientHC == Member(client, "HostConfig")
            sentHC   == Member(sent, "HostConfig")
            links    == Member(sentHC, "Links")
        IN  /\ IF cfg.User # ""
               THEN Sent(sent, "User") = JStr(cfg.User)
               ELSE Sent(sent, "User") = Sent(client, "User")
            /\ IF cfg.ContainerCgroupParent # ""
               THEN Sent(sentHC, "CgroupParent") = JStr(cfg.ContainerCgroupParent)
               ELSE Sent(sentHC, "CgroupParent") = Sent(clientHC, "CgroupParent")
            /\ IF cfg.ContainerDockerLink # ""
               THEN /\ links.t = "arr" /\ Len(links.v) >= 1
                    /\ links.v[Len(links.v)] = JStr(cfg.ContainerDockerLink)
               ELSE Sent(sentHC, "Links") = Sent(clientHC, "Links")

C20_Witness ==
    /\ pc = "answered" /\ Route(req) = "containerCreate" /\ IsForwarded(out)
    /\ cfg.User # "" /\ cfg.ContainerCgroupParent # "" /\ cfg.ContainerDockerLink # ""
    /\ Sent(req.body.v, "User") = JStr("root")
    /\ Sent(Member(req.body.v, "HostConfig"), "Links") = JArr(<<JStr("x:y")>>)
    /\ Sent(ForwardedRequest(out).body.v, "User") = JStr(cfg.User)

\* The filters parameter is a JSON object each of whose members has one of
\* the two shapes: an object, or an array of strings.
TwoShaped(qf) ==
    /\ qf.t = "json" /\ IsObj(qf.v)
    /\ \A k \in DOMAIN qf.v.v :
           \/ qf.v.v[k].t = "obj"
           \/ /\ qf.v.v[k].t = "arr"
              /\ \A i \in 1..Len(qf.v.v[k].v) : qf.v.v[k].v[i].t = "str"

\* The same values in the other shape: {v1: true, ...} for [v1, ...] and an
\* array of the member names for an object.
OtherShape(value) ==
    IF value.t = "obj"
    THEN JArr([i \in 1..Cardinality(DOMAIN value.v) |->
                  JStr((CHOOSE o \in Orders(DOMAIN value.v) : TRUE)[i])])
    ELSE JObj([name \in {value.v[i].v : i \in 1..Len(value.v)} |-> JBool(TRUE)])

\* The request with every member of its filters in the other shape.
OtherShapeRequest(r) ==
    [r EXCEPT !.query.filters =
        Json(JObj([k \in DOMAIN r.query.filters.v.v |-> OtherShape(r.query.filters.v.v[k])]))]

\* Two outcomes forward filters with the same keys, each with the same values.
SameFilters(o1, o2) ==
    /\ IsForwarded(o1) /\ IsForwarded(o2)
    /\ LET f1 == ForwardedRequest(o1).query.filters.v.v
           f2 == ForwardedRequest(o2).query.filters.v.v
       IN  /\ DOMAIN f1 = DOMAIN f2
           /\ \A k \in DOMAIN f1 : FilterValueSet(f1[k]) = FilterValueSet(f2[k])

\* C21: for every filter key and every set of values, the legacy object
\* shape {key: {v1: true, ...}} and the array shape {key: [v1, ...]} are
\* forwarded as the same filters (the same keys, each with the same values,
\* and the owner label under label); a filter value of any other JSON type
\* is answered 400 and nothing is forwarded.
C21_BothShapesGiveTheSameFilters ==
    (pc = "answered" /\ Route(req) = "filters" /\ req.query.filters.t = "json"
                     /\ IsObj(req.query.filters.v)) =>
        IF TwoShaped(req.query.filters)
        THEN \E o2 \in addLabelsToQueryStringFilters(cfg, OtherShapeRequest(req)) :
                 SameFilters(out, o2)
        ELSE out.resp = StatusBadRequest /\ out.calls = <<>>

\* The statuses of the answers the proxy writes itself.
ErrorStatuses ==
    {StatusBadRequest, StatusUnauthorized, StatusInternalServerError, StatusNotImplemented}

\* C22: every answer the proxy writes itself, on every error path, has a
\* status among 400, 401, 500 and 501, the Content-Type application/json and
\* a body of the shape {"message": <string>}.
C22_ErrorsAreJsonMessages ==
    (pc = "answered" /\ out.resp # 0) =>
        /\ out.resp \in ErrorStatuses
        /\ out.format = JsonFormat

-----------------------------------------------------------------------------
(* The vocabulary of the claims about the stream proxy *)

IsPrefix(s, t) == Len(s) <= Len(t) /\ s = SubSeq(t, 1, Len(s))

\* The responses the upstream has written on the dialled connection, in order.
UpstreamWrote == [i \in 1..Len(px.executed) |-> ResponseTo([line |-> px.executed[i]])]

\* What the worker wrote to upstream is the request it was handed, once; the
\* client has received a prefix of what the upstream wrote; and while the
\* client is reading and the copy runs, what is not yet received is in flight.
DeliveredInOrder ==
    /\ px.written # <<>> => px.written = <<WriteRequest(px.first)>>
    /\ px.executed # <<>> => px.executed[1] = px.first.line
    /\ IsPrefix(px.toClient, UpstreamWrote)
    /\ (px.clientOpen /\ px.u2c # "done") => px.toClient \o px.fromUpstream = UpstreamWrote

FirstResponseReceived ==
    px.toClient # <<>> /\ px.toClient[1] = ResponseTo(WriteRequest(px.first))

\* C23: a request the worker is handed is written to the upstream
\* connection it dialled for it, and the client receives exactly what the
\* upstream wrote in response, in order, nothing lost and nothing twice; once
\* the request is written, a client that keeps reading does receive the
\* response.
C23_ResponseReachesClient ==
    /\ []DeliveredInOrder
    /\ (px.written # <<>>) ~> (FirstResponseReceived \/ ~px.clientOpen)

C23_Witness ==
    /\ px.clientOpen /\ FirstResponseReceived
    /\ px.toClient = UpstreamWrote /\ px.fromUpstream = <<>>

\* C24: whatever the engine's other clients do between the inspect of an
\* owner check and the moment the engine executes the forwarded request
\* (delete, create or relabel a resource of the same name), the resource the
\* request acts on does not, at that moment, carry the owner label of
\* another owner.
C24_ExecutedOnOwnedResource ==
    (pc = "executed" /\ Inspected(out)) =>
        LET kind == OwnerCheckedKind(req)
        IN  ~OwnedByAnother(InspectAnswer(upstream, kind, InspectedId(out, kind)), cfg.Owner)

\* The network carries the owner label of the given owner.
NetworkOwnedBy(u, id, owner) ==
    LET answer == InspectAnswer(u, "networks", <<id>>)
    IN  /\ answer.status = StatusOK
        /\ ownerKey \in DOMAIN answer.labels
        /\ answer.labels[ownerKey] = owner

\* C25: every synthetic connect or disconnect issued for the sibling
\* container names a network that carries the configured owner's label: the
\* sibling is connected only to a network this proxy's create made (none of
\* that name existed before, or it was this owner's), and force-disconnected
\* only from a network labelled with this owner, never from an unlabelled
\* or another owner's network.
C25_SiblingOnlyOnOwnedNetworks ==
    pc = "answered" =>
        \A i \in 1..Len(out.calls) :
            LET call == out.calls[i]
            IN  /\ call.type = "disconnect" =>
                       NetworkOwnedBy(upstream, call.req.path[3], cfg.Owner)
                /\ call.type = "connect" =>
                       \/ NetworkOwnedBy(upstream, call.req.path[3], cfg.Owner)
                       \/ InspectAnswer(upstream, "networks", <<call.req.path[3]>>).status
                              = StatusNotFound

\* The worker has returned from ServeHTTP with both sockets closed.
WorkerDone == px.at = "done" /\ px.sockClosed /\ px.connClosed

\* A party of the proxied connection has closed its end while the copies run.
PartyClosed == px.at = "copy" /\ (~px.clientOpen \/ ~px.upstreamOpen)

\* C26: once the client or the upstream has closed its end of a proxied
\* connection, both copies end, the worker returns from ServeHTTP and both
\* sockets are closed, whether or not the other party closes too; so it is
\* when the upstream closes after its response and the client keeps its
\* connection open.
C26_EitherCloseEndsTheWorker ==
    PartyClosed ~> WorkerDone

\* C27: within one worker the upstream socket and the hijacked client
\* socket are closed only after both copies, client to upstream and upstream
\* to client, have ended, and ServeHTTP does not return while a copy runs; a
\* copy that moved no bytes or ended on an error has ended like any other.
C27_ClosedOnlyAfterBothCopies ==
    pc = "proxy" =>
        /\ (px.sockClosed \/ px.connClosed \/ px.at = "done") =>
               (px.c2u # "run" /\ px.u2c # "run")
        /\ (px.c2u # "idle" \/ px.u2c # "idle") =>
               /\ (px.sockClosed \/ px.connClosed) => (px.c2u = "done" /\ px.u2c = "done")
               /\ (px.c2u = "done" /\ px.u2c = "done") => px.at \in {"copy", "done"}

\* C27 witness: the worker returned and closed both sockets after a copy to
\* the client that delivered nothing (the client had closed).
C27_Witness ==
    /\ pc = "proxy" /\ px.at = "done" /\ px.sockClosed /\ px.connClosed
    /\ px.c2u = "done" /\ px.u2c = "done"
    /\ px.executed # <<>> /\ px.toClient = <<>>

\* C28: a POST /containers/create whose body is a well-formed JSON object is
\* refused only for a policy reason (Privileged true, a disallowed host
\* bind, host networking while disabled, a CgroupParent of its own while none
\* is configured); every other such body, also one without HostConfig or
\* whose HostConfig has no CgroupParent, is rewritten and forwarded; and the
\* handler always answers or forwards.
C28_WellFormedCreateIsRefusedOnlyByPolicy ==
    (/\ pc = "answered" /\ Route(req) = "containerCreate"
     /\ req.body.t = "json" /\ IsObj(req.body.v)) =>
        /\ ~out.panic
        /\ IF PolicyViolation(cfg, req.body)
           THEN Refused(out)
           ELSE IsForwarded(out) /\ out.resp = 0

\* The bytes a body still yields to whoever reads it next: none for no body
\* and for a reader already read to its end.
RemainingBytes(body) == IF body.t \in {"empty", "drained"} THEN EmptyBody ELSE body

\* C29: for GET /networks/{id} and POST /networks/{id}/connect and
\* /networks/{id}/disconnect the forwarded request has the method, path,
\* query and body bytes of the client's request: the Director neither
\* consumes nor alters the body before it is serialised to upstream.
C29_NetworkRequestsForwardedIntact ==
    (/\ pc = "answered"
     /\ \/ match(req, "GET", "^/networks/(.+)$")
        \/ match(req, "POST", "^/networks/(.+)/(connect|disconnect)$")
     /\ Route(req) = "networkPassThrough"
     /\ IsForwarded(out)) =>
        LET sent == ForwardedRequest(out)
        IN  /\ sent.method = req.method
            /\ sent.path = req.path
            /\ sent.query = req.query
            /\ RemainingBytes(sent.body) = RemainingBytes(req.body)

\* The request with its leading version segment removed, or with /v1.32 put
\* in front when it has none.
VersionTwin(r) ==
    IF HasVersion(r.path) THEN [r EXCEPT !.path = Tail(@)]
    ELSE [r EXCEPT !.path = <<"v1.32">> \o @]

\* Two outcomes are the same handling: the same status, the same calls
\* upstream in the same order, the forwarded request rewritten alike (its
\* path apart from the version segment).
SameHandling(o1, o2) ==
    /\ o1.resp = o2.resp /\ o1.panic = o2.panic /\ o1.format = o2.format
    /\ Len(o1.calls) = Len(o2.calls)
    /\ \A i \in 1..Len(o1.calls) :
           /\ o1.calls[i].type = o2.calls[i].type
           /\ IF o1.calls[i].type = "forward"
              THEN [o1.calls[i].req EXCEPT !.path = StripVersion(@)] =
                   [o2.calls[i].req EXCEPT !.path = StripVersion(@)]
              ELSE o1.calls[i] = o2.calls[i]

\* C30: the handling of a request does not depend on a leading /vX.Y
\* segment of its path: with and without it the request gets the same
\* classification, the same rewrite, the same decision and status, and the
\* same synthetic calls upstream (the disconnect of DELETE /networks/{id}
\* included).
C30_VersionPrefixMakesNoDifference ==
    pc = "answered" =>
        /\ Route(VersionTwin(req)) = Route(req)
        /\ \E o2 \in Direct(cfg, upstream, VersionTwin(req)) : SameHandling(out, o2)

=============================================================================
